---- MODULE Spec2Model ----
(***************************************************************************)
(* State-machine model of BiliLiveNoticePlugin (src/main.py): the batch    *)
(* status fetcher, the poll loop monitor_live_status with its per-uid      *)
(* backoff and adaptive interval, and the add/remove command handlers      *)
(* that interleave with the loop at its await points.                      *)
(*                                                                         *)
(* asyncio is cooperative: a coroutine runs without interruption from one  *)
(* await that really suspends (network I/O, sleep, send_message) to the    *)
(* next.  Each action below is one such uninterrupted run.  save_config    *)
(* contains no suspending await, and the file it writes is read only by    *)
(* load_config before the loop starts, so it is not a state variable.      *)
(***************************************************************************)
EXTENDS Integers, Sequences, FiniteSets, TLC

VARIABLES
    check_interval,            \* self.check_interval (configured base)
    max_monitors,              \* self.max_monitors
    enable_notifications,      \* self.enable_notifications
    enable_end_notifications,  \* self.enable_end_notifications
    monitored_uids,            \* self.monitored_uids: ordered dict, a sequence of [uid, info]
    live_status_cache,         \* self.live_status_cache: uid -> last live_status
    uid_error_counts,          \* self.uid_error_counts
    uid_skip_until,            \* self.uid_skip_until
    current_interval,          \* self.current_interval
    last_rate_limited,         \* self._last_rate_limited
    pc,                        \* where monitor_live_status is suspended or running
    consecutive_errors,        \* local of monitor_live_status
    monitored_copy,            \* local: the snapshot dict(self.monitored_uids)
    now,                       \* local: loop.time() read at the cycle's start
    uids,                      \* local: the identifiers sent to the batch fetch
    status_map,                \* local: the batch fetch's result
    idx,                       \* local: position of the for loop in monitored_copy
    wait_time,                 \* the delay of the asyncio.sleep the loop is in
    time,                      \* the event loop's monotonic clock
    horizon,                   \* the clock value at which the run is cut off
    add_inflight,              \* add_monitor handlers suspended in get_live_status
    reply,                     \* the upstream reply the fetcher was given (fetcher harness)
    fired,                     \* history: the transition call made by the last step
    live_unanswered,           \* history: uid -> WENT_LIVE fired, no not-LIVE seen since
    armed,                     \* history: uid -> WENT_LIVE fired, no WENT_OFFLINE since
    seeded,                    \* history: uid -> cache entry written LIVE outside the loop
    empty_run,                 \* history: uid -> consecutive fetched empty results
    retry_at,                  \* history: uid -> the deadline its last fetched result set
    seen_429,                  \* history: a fetch got HTTP 429 since the last interval update
    commands                   \* history: commands handled so far

vars == <<check_interval, max_monitors, enable_notifications, enable_end_notifications,
          monitored_uids, live_status_cache, uid_error_counts, uid_skip_until,
          current_interval, last_rate_limited, pc, consecutive_errors, monitored_copy,
          now, uids, status_map, idx, wait_time, time, horizon, add_inflight, reply, fired,
          live_unanswered, armed, seeded, empty_run, retry_at, seen_429, commands>>

----------------------------------------------------------------------------
(* Bounds of the model *)

\* The clock stops the model here: no sleep may end later.  MaxTime is the horizon
\* of the runs with commands, MaxLoopTime of the runs of the loop alone.
MaxTime == 60
MaxLoopTime == 360
\* add_monitor handlers suspended in their fetch at the same time.
MaxInflight == 2
\* Commands the users send during one run.
MaxCommands == 2
\* Length of the uid list given to the fetcher on its own.
MaxUids == 2

(* Program constants *)

IntervalCap == 300          \* min(300, ...) of the interval controller
BackoffStep == 30           \* 30 * cnt
BackoffCap == 300           \* min(300, 30 * cnt)
max_consecutive_errors == 5
FailureWaitStep == 60       \* 60 * consecutive_errors
FailureWaitCap == 300       \* min(300, 60 * consecutive_errors)

----------------------------------------------------------------------------
(* Values *)

\* Identifier strings the commands and the registry use.  "x" is not numeric.
DigitUids == {"1", "2"}
UidArgs == DigitUids \cup {"x"}

\* str.isdigit()
isdigit(u) == u \in DigitUids

Min(a, b) == IF a <= b THEN a ELSE b
Max(a, b) == IF a >= b THEN a ELSE b
Range(s) == {s[i] : i \in 1..Len(s)}

\* dict.get(k, default) on a mapping modelled as a function
Get(d, k, default) == IF k \in DOMAIN d THEN d[k] ELSE default
\* d[k] = v on an unordered dict
Put(d, k, v) == [x \in DOMAIN d \cup {k} |-> IF x = k THEN v ELSE d[x]]
\* d.pop(k, None) / del d[k]
Pop(d, k) == [x \in DOMAIN d \ {k} |-> d[x]]
EmptyDict == [x \in {} |-> 0]

\* The ordered dict monitored_uids: a sequence of [uid, info], in insertion order.
Keys(od) == [i \in 1..Len(od) |-> od[i].uid]
HasKey(od, u) == \E i \in 1..Len(od) : od[i].uid = u
InfoOf(od, u) == od[CHOOSE i \in 1..Len(od) : od[i].uid = u].info
\* od[u] = info: an existing key keeps its position, a new key goes last
OdPut(od, u, info) ==
    IF HasKey(od, u)
    THEN [i \in 1..Len(od) |-> IF od[i].uid = u THEN [uid |-> u, info |-> info] ELSE od[i]]
    ELSE Append(od, [uid |-> u, info |-> info])
\* del od[u]
OdDel(od, u) == SelectSeq(od, LAMBDA e : e.uid # u)

\* The default item of the finally clause
ZeroStatus == [live_status |-> 0, room_id |-> 0, title |-> "", uname |-> ""]

----------------------------------------------------------------------------
(* Upstream replies to one POST of get_live_status_batch *)

\* A user_data / list-entry dict is a function from the field names it holds.
AliceLive == [live_status |-> 1, room_id |-> 999, title |-> "t", uname |-> "Alice"]
AliceOff == [live_status |-> 0, room_id |-> 999, title |-> "", uname |-> "Alice"]
BobLive == [live_status |-> 1, room_id |-> 998, title |-> "t", uname |-> "Bob"]
BobOff == [live_status |-> 0, room_id |-> 998, title |-> "", uname |-> "Bob"]

\* What a reply holds for one uid: a falsy {}, a full record, records missing fields.
UserDatas == {EmptyDict, AliceLive, [live_status |-> 1], [room_id |-> 5, uname |-> "Bob"]}
PayloadKeys == {"1", "2", "9"}
DictPayloads == UNION {[K -> UserDatas] : K \in SUBSET PayloadKeys}

\* Entries of the list shape, found by their "uid" or "mid" field.
ListEntries == {[uid |-> 1, live_status |-> 1, room_id |-> 999, title |-> "t", uname |-> "Alice"],
                [mid |-> 2, live_status |-> 0, uname |-> "Bob"],
                [uid |-> 0, mid |-> 1, live_status |-> 2],
                [title |-> "t"]}
ListPayloads == {<<>>} \cup {<<a>> : a \in ListEntries}
                  \cup {<<a, b>> : a \in ListEntries, b \in ListEntries}

\* body["code"]: 0, or an application-level error
AppCodes == {0, -352}

Http200(code, shape, items) ==
    [kind |-> "http", status |-> 200, code |-> code, shape |-> shape, items |-> items]
Http(status) == [kind |-> "http", status |-> status]
\* session.post / response.json() raising: transport error, timeout, parse error
RaisedReply == [kind |-> "exception"]
NoReply == [kind |-> "none"]

AllReplies ==
    {RaisedReply, Http(429), Http(500)}
      \cup {Http200(c, "dict", d) : c \in AppCodes, d \in DictPayloads}
      \cup {Http200(c, "list", l) : c \in AppCodes, l \in ListPayloads}
      \cup {Http200(c, "null", <<>>) : c \in AppCodes}

\* str() of the numeric ids the list shape carries
StrOf(n) == CASE n = 1 -> "1" [] n = 2 -> "2" [] OTHER -> "9"

\* str(entry.get("uid") or entry.get("mid") or "")
EntryUid(entry) ==
    IF "uid" \in DOMAIN entry /\ entry.uid # 0 THEN StrOf(entry.uid)
    ELSE IF "mid" \in DOMAIN entry /\ entry.mid # 0 THEN StrOf(entry.mid)
    ELSE ""

\* by_uid[uid_val] = entry for each entry in order: the last entry of a uid wins
ByUid(items) ==
    LET ks == {EntryUid(items[i]) : i \in 1..Len(items)} \ {""}
    IN  [k \in ks |-> items[CHOOSE i \in 1..Len(items) :
                               /\ EntryUid(items[i]) = k
                               /\ \A j \in 1..Len(items) : EntryUid(items[j]) = k => j <= i]]

\* The dict built for one uid from user_data / entry
StatusOf(d) ==
    [live_status |-> Get(d, "live_status", 0),
     room_id |-> Get(d, "room_id", 0),
     title |-> Get(d, "title", ""),
     uname |-> Get(d, "uname", "")]

\* The uids the payload holds a truthy item for
FoundIn(lookup, uidlist) ==
    {u \in Range(uidlist) : u \in DOMAIN lookup /\ lookup[u] # EmptyDict}

\* The try block: result_map as it leaves the block, and the exception raised in it
TryBatch(uidlist, r) ==
    IF \E i \in 1..Len(uidlist) : ~isdigit(uidlist[i])
    THEN [map |-> EmptyDict, exc |-> "ValueError"]       \* int(u) while building the request
    ELSE IF r.kind = "exception"
    THEN [map |-> EmptyDict, exc |-> "ClientError"]
    ELSE IF r.status = 200 /\ r.code = 0 /\ r.shape \in {"dict", "list"}
    THEN LET lookup == IF r.shape = "dict" THEN r.items ELSE ByUid(r.items)
         IN  [map |-> [u \in FoundIn(lookup, uidlist) |-> StatusOf(lookup[u])],
              exc |-> "none"]
    ELSE [map |-> EmptyDict, exc |-> "none"]

\* except Exception: every exception the try block raises is an Exception
CaughtByExcept(exc) == exc \in {"ValueError", "ClientError"}

\* (mutation) the finally clause left out
FillDefaults_Skipped(result_map, uidlist) == result_map

\* The finally clause: a default item for every uid not in result_map
FillDefaults(result_map, uidlist) ==
    [u \in DOMAIN result_map \cup Range(uidlist) |->
        IF u \in DOMAIN result_map THEN result_map[u] ELSE ZeroStatus]

\* get_live_status_batch: the mapping returned, and whether an exception leaves it
get_live_status_batch(uidlist, r) ==
    LET t == TryBatch(uidlist, r)
    IN  [map |-> FillDefaults(t.map, uidlist),
         raised |-> t.exc # "none" /\ ~CaughtByExcept(t.exc)]

\* self._last_rate_limited after the call
RateLimitedAfter(flag, uidlist, r) ==
    IF \E i \in 1..Len(uidlist) : ~isdigit(uidlist[i]) THEN flag
    ELSE IF r.kind = "exception" THEN flag
    ELSE IF r.status = 200 THEN (IF r.code = 0 THEN FALSE ELSE flag)
    ELSE IF r.status = 429 THEN TRUE
    ELSE flag

\* get_live_status: one uid through the batch call
get_live_status(uid, r) ==
    LET batch == get_live_status_batch(<<uid>>, r).map
    IN  IF uid \in DOMAIN batch THEN batch[uid] ELSE ZeroStatus

----------------------------------------------------------------------------
(* Configuration and persisted state the plugin can start from *)

\* config check_interval: int(...) of any configured number, no validation
CheckIntervals == {60, 200, 400}
\* config max_monitors
MaxMonitorChoices == {1, 2}

\* event.get_sender_name() and event.unified_msg_origin of a command
Senders == {"alice", "bob"}
OriginOf(s) == IF s = "alice" THEN "umo_a" ELSE "umo_b"

\* The registry entry add_monitor builds
NewInfo(status_info, sender, t) ==
    [uname |-> Get(status_info, "uname", ""),
     room_id |-> Get(status_info, "room_id", 0),
     added_by |-> sender,
     added_time |-> t,
     unified_msg_origin |-> OriginOf(sender)]

\* What load_config finds: no file, a file saved while uid "1" was live, a file
\* saved with two uids tracked
NoFile == [monitored_uids |-> <<>>, live_status_cache |-> EmptyDict]
OneTracked ==
    [monitored_uids |-> <<[uid |-> "1", info |-> NewInfo(AliceLive, "alice", 0)]>>,
     live_status_cache |-> [u \in {"1"} |-> 1]]
TwoTracked ==
    [monitored_uids |-> <<[uid |-> "1", info |-> NewInfo(AliceLive, "alice", 0)],
                          [uid |-> "2", info |-> NewInfo(BobOff, "bob", 0)]>>,
     live_status_cache |-> [u \in {"1", "2"} |-> IF u = "1" THEN 1 ELSE 0]]

\* A file whose entry has no unified_msg_origin (monitor_info.get returns None)
LegacyTracked ==
    [monitored_uids |->
        <<[uid |-> "1", info |-> [uname |-> "Alice", room_id |-> 999,
                                  added_by |-> "alice", added_time |-> 0]],
          [uid |-> "2", info |-> NewInfo(BobOff, "bob", 0)]>>,
     live_status_cache |-> [u \in {"1", "2"} |-> 0]]

\* The transition call a step makes, or a command's result
NoEvent == [kind |-> "none"]
Event(kind, uid) == [kind |-> kind, uid |-> uid]

\* __init__ followed by initialize(): configuration read, persisted state loaded,
\* the loop task created and not yet run
InitWith(persisted, caps, h, start, lists) ==
    /\ check_interval \in CheckIntervals
    /\ max_monitors \in caps
    /\ horizon = h
    /\ enable_notifications = TRUE
    /\ enable_end_notifications = TRUE
    /\ \E p \in persisted :
          /\ monitored_uids = p.monitored_uids
          /\ live_status_cache = p.live_status_cache
          /\ seeded = [u \in DigitUids |-> Get(p.live_status_cache, u, 0) = 1]
    /\ uid_error_counts = EmptyDict
    /\ uid_skip_until = EmptyDict
    /\ current_interval = check_interval
    /\ last_rate_limited = FALSE
    /\ pc = start
    /\ consecutive_errors = 0
    /\ monitored_copy = <<>>
    /\ now = 0
    /\ uids \in lists
    /\ status_map = EmptyDict
    /\ idx = 0
    /\ wait_time = 0
    /\ time = 0
    /\ add_inflight = {}
    /\ reply = NoReply
    /\ fired = NoEvent
    /\ live_unanswered = [u \in DigitUids |-> FALSE]
    /\ armed = [u \in DigitUids |-> FALSE]
    /\ empty_run = [u \in DigitUids |-> 0]
    /\ retry_at = [u \in DigitUids |-> 0]
    /\ seen_429 = FALSE
    /\ commands = 0

Init == InitWith({NoFile, OneTracked}, MaxMonitorChoices, MaxTime, "top", {<<>>})

config == <<check_interval, max_monitors, enable_notifications, enable_end_notifications,
            horizon>>
locals == <<monitored_copy, now, uids, status_map, idx>>
backoff == <<uid_error_counts, uid_skip_until>>
history == <<live_unanswered, armed, seeded, empty_run, retry_at, seen_429, commands>>

----------------------------------------------------------------------------
(* What the status source can answer for the identifiers of one request *)

UpstreamOf(u) == IF u = "1" THEN {AliceLive, AliceOff} ELSE {BobLive, BobOff}

\* Keyed payloads: each requested uid is resolved (live or not) or left out
PayloadsFor(S) ==
    UNION {{d \in [K -> UNION {UpstreamOf(k) : k \in K}] : \A k \in K : d[k] \in UpstreamOf(k)}
             : K \in SUBSET S}

Replies(uidlist) ==
    {RaisedReply, Http(429), Http(500)}
      \cup {Http200(0, "dict", d) : d \in PayloadsFor(Range(uidlist))}

----------------------------------------------------------------------------
(* monitor_live_status *)

\* int(x * 2) and int(x * 0.75): int() truncates toward zero
Doubled(x) == 2 * x
ThreeQuarters(x) == IF x >= 0 THEN (3 * x) \div 4 ELSE -((3 * (-x)) \div 4)

\* (mutation) the decay without its floor max(self.check_interval, ...)
NextInterval_NoFloor(rate_limited, base, cur) ==
    IF rate_limited
    THEN Min(IntervalCap, Max(base, Doubled(cur)))
    ELSE ThreeQuarters(cur)

\* The interval adjustment after the sleep
NextInterval(rate_limited, base, cur) ==
    IF rate_limited
    THEN Min(IntervalCap, Max(base, Doubled(cur)))
    ELSE Max(base, ThreeQuarters(cur))

\* uids = [uid for uid in monitored_copy.keys() if self.uid_skip_until.get(uid, 0) <= now]
EligibleUids(copy, skip_until, t) ==
    SelectSeq(Keys(copy), LAMBDA u : Get(skip_until, u, 0) <= t)

\* The loop is parked at an await: other coroutines run only then
Suspended == pc \in {"fetch", "send_live", "send_end", "sleep", "idle_sleep", "err_sleep"}

\* (mutation) the for loop walks the registry itself instead of the copy
CurUid_Live ==
    IF idx \in 1..Len(monitored_uids) THEN monitored_uids[idx].uid
    ELSE monitored_copy[idx].uid

CurUid == monitored_copy[idx].uid
CurInfo == monitored_copy[idx].info
\* current_status = status_map.get(uid, {"live_status": 0})
CurrentStatus == Get(status_map, CurUid, [live_status |-> 0])
\* previous_status = self.live_status_cache.get(uid, 0)
PreviousStatus == Get(live_status_cache, CurUid, 0)

\* (mutation) every LIVE observation announced, whatever the cache holds
WentLive_AnyLive(cur, prev) == Get(cur, "live_status", 0) = 1

\* if current_status.get("live_status") == 1 and previous_status != 1
WentLive(cur, prev) == Get(cur, "live_status", 0) = 1 /\ prev # 1
\* (mutation) the end of a stream detected without looking at the cached state
WentOffline_AnyNotLive(cur, prev) == Get(cur, "live_status", 0) # 1

\* previous_status == 1 and current_status.get("live_status") != 1
WentOffline(cur, prev) == prev = 1 /\ Get(cur, "live_status", 0) # 1

\* is_empty = (not current_status.get("uname")) and current_status.get("room_id", 0) == 0
is_empty(cur) == Get(cur, "uname", "") = "" /\ Get(cur, "room_id", 0) = 0

\* min(300, 30 * cnt)
SkipDelay(cnt) == Min(BackoffCap, BackoffStep * cnt)

\* (mutation) the enable_notifications check left out
SendsLive_Unconditional(info) == Get(info, "unified_msg_origin", "") # ""

\* send_live_notification reaches context.send_message
SendsLive(info) ==
    enable_notifications /\ Get(info, "unified_msg_origin", "") # ""
\* send_end_notification reaches context.send_message
SendsEnd(info) ==
    /\ enable_notifications /\ enable_end_notifications
    /\ Get(info, "unified_msg_origin", "") # ""

\* while True / try: the idle check, the snapshot, the eligible uids, the fetch call
LoopStart ==
    /\ pc = "top"
    /\ fired' = NoEvent
    /\ IF Len(monitored_uids) = 0
       THEN /\ pc' = "idle_sleep"
            /\ wait_time' = check_interval
            /\ UNCHANGED locals
       ELSE /\ monitored_copy' = monitored_uids
            /\ now' = time
            /\ uids' = EligibleUids(monitored_uids, uid_skip_until, time)
            /\ pc' = "fetch"
            /\ UNCHANGED <<status_map, idx, wait_time>>
    /\ UNCHANGED <<config, monitored_uids, live_status_cache, backoff, current_interval,
                   last_rate_limited, consecutive_errors, time, add_inflight, reply, history>>

\* The idle sleep(self.check_interval) ends; continue
LoopIdleWake ==
    /\ pc = "idle_sleep"
    /\ time + wait_time <= horizon
    /\ time' = time + wait_time
    /\ pc' = "top"
    /\ fired' = NoEvent
    /\ UNCHANGED <<config, monitored_uids, live_status_cache, backoff, current_interval,
                   last_rate_limited, consecutive_errors, locals, wait_time, add_inflight,
                   reply, history>>

\* get_live_status_batch(uids) returns to the loop
LoopFetchReturn ==
    /\ pc = "fetch"
    /\ \E r \in Replies(uids) :
          /\ status_map' = get_live_status_batch(uids, r).map
          /\ last_rate_limited' = RateLimitedAfter(last_rate_limited, uids, r)
          /\ seen_429' = (seen_429 \/ r = Http(429))
    /\ idx' = 1
    /\ pc' = "proc"
    /\ fired' = NoEvent
    /\ UNCHANGED <<config, monitored_uids, live_status_cache, backoff, current_interval,
                   consecutive_errors, monitored_copy, now, uids, wait_time, time,
                   add_inflight, reply, live_unanswered, armed, seeded, empty_run,
                   retry_at, commands>>

\* The rest of one for-iteration: cache update, backoff bookkeeping, and after the
\* last uid the counter reset and the call of sleep(self.current_interval)
FinishUid ==
    LET uid == CurUid
        cur == CurrentStatus
        cnt == Get(uid_error_counts, uid, 0) + 1
        fetched == uid \in Range(uids)
    IN  /\ live_status_cache' = Put(live_status_cache, uid, Get(cur, "live_status", 0))
        /\ IF is_empty(cur)
           THEN /\ uid_error_counts' = Put(uid_error_counts, uid, cnt)
                /\ uid_skip_until' = Put(uid_skip_until, uid, now + SkipDelay(cnt))
           ELSE /\ uid_error_counts' = Pop(uid_error_counts, uid)
                /\ uid_skip_until' = Pop(uid_skip_until, uid)
        /\ empty_run' = [empty_run EXCEPT ![uid] =
                            IF ~fetched THEN @ ELSE IF is_empty(cur) THEN @ + 1 ELSE 0]
        /\ retry_at' = [retry_at EXCEPT ![uid] =
                           IF ~fetched THEN @
                           ELSE IF is_empty(cur) THEN now + SkipDelay(cnt) ELSE 0]
        /\ seeded' = [seeded EXCEPT ![uid] = @ /\ Get(cur, "live_status", 0) = 1]
        /\ IF idx = Len(monitored_copy)
           THEN /\ consecutive_errors' = 0
                /\ wait_time' = current_interval
                /\ pc' = "sleep"
                /\ monitored_copy' = <<>>      \* the locals are dead after the for loop
                /\ now' = 0
                /\ uids' = <<>>
                /\ status_map' = EmptyDict
                /\ idx' = 0
           ELSE /\ idx' = idx + 1
                /\ pc' = "proc"
                /\ UNCHANGED <<consecutive_errors, wait_time, monitored_copy, now, uids,
                               status_map>>

\* One for-iteration up to its first await that suspends
LoopProcess ==
    /\ pc = "proc"
    /\ LET uid == CurUid
           cur == CurrentStatus
           prev == PreviousStatus
           seen_live == Get(cur, "live_status", 0) = 1
       IN  /\ live_unanswered' = [live_unanswered EXCEPT ![uid] =
                                     IF seen_live THEN @ \/ WentLive(cur, prev) ELSE FALSE]
           /\ IF WentLive(cur, prev)
              THEN /\ fired' = Event("WENT_LIVE", uid)
                   /\ armed' = [armed EXCEPT ![uid] = TRUE]
                   /\ IF SendsLive(CurInfo)
                      THEN /\ pc' = "send_live"
                           /\ UNCHANGED <<live_status_cache, backoff, consecutive_errors,
                                          locals, wait_time, seeded, empty_run, retry_at>>
                      ELSE FinishUid
              ELSE IF WentOffline(cur, prev)
              THEN /\ fired' = Event("WENT_OFFLINE", uid)
                   /\ armed' = [armed EXCEPT ![uid] = FALSE]
                   /\ IF SendsEnd(CurInfo)
                      THEN /\ pc' = "send_end"
                           /\ UNCHANGED <<live_status_cache, backoff, consecutive_errors,
                                          locals, wait_time, seeded, empty_run, retry_at>>
                      ELSE FinishUid
              ELSE /\ fired' = NoEvent
                   /\ UNCHANGED armed
                   /\ FinishUid
    /\ UNCHANGED <<config, monitored_uids, current_interval, last_rate_limited, time,
                   add_inflight, reply, seen_429, commands>>

\* (mutation) the threshold compared with > instead of >=
FailureWait_OffByOne(errors, interval) ==
    IF errors > max_consecutive_errors
    THEN Min(FailureWaitCap, FailureWaitStep * errors)
    ELSE interval

\* wait_time = min(300, 60 * consecutive_errors), or self.current_interval below the threshold
FailureWait(errors, interval) ==
    IF errors >= max_consecutive_errors
    THEN Min(FailureWaitCap, FailureWaitStep * errors)
    ELSE interval

\* (mutation) the loop gives up after a failure instead of sleeping and retrying
AfterFailure_GivesUp(errors) == "done"

\* Where the except branch leaves the loop: at one of its two sleeps, inside while True
AfterFailure(errors) == "err_sleep"

\* The except Exception branch: count the failure and call the sleep
Failure ==
    /\ consecutive_errors' = consecutive_errors + 1
    /\ wait_time' = FailureWait(consecutive_errors + 1, current_interval)
    /\ pc' = AfterFailure(consecutive_errors + 1)
    /\ monitored_copy' = <<>>
    /\ now' = 0
    /\ uids' = <<>>
    /\ status_map' = EmptyDict
    /\ idx' = 0

\* (mutation) a failed delivery propagates out of the notification
NotificationRaises_Propagates(delivered) == ~delivered

\* except Exception in send_live_notification / send_end_notification: whatever
\* context.send_message raises is logged there and goes no further
NotificationRaises(delivered) == FALSE

\* context.send_message returns or raises
LoopSendReturn ==
    /\ pc \in {"send_live", "send_end"}
    /\ \E delivered \in BOOLEAN :
          /\ IF NotificationRaises(delivered)
             THEN /\ Failure
                  /\ UNCHANGED <<live_status_cache, backoff, seeded, empty_run, retry_at>>
             ELSE FinishUid
          /\ fired' = IF delivered THEN NoEvent ELSE Event("SEND_FAILED", CurUid)
    /\ UNCHANGED <<config, monitored_uids, current_interval, last_rate_limited, time,
                   add_inflight, reply, live_unanswered, armed, seen_429, commands>>

\* sleep(self.current_interval) ends; the interval is adjusted
LoopWake ==
    /\ pc = "sleep"
    /\ time + wait_time <= horizon
    /\ time' = time + wait_time
    /\ current_interval' = NextInterval(last_rate_limited, check_interval, current_interval)
    /\ seen_429' = FALSE
    /\ pc' = "top"
    /\ fired' = NoEvent
    /\ UNCHANGED <<config, monitored_uids, live_status_cache, backoff, last_rate_limited,
                   consecutive_errors, locals, wait_time, add_inflight, reply,
                   live_unanswered, armed, seeded, empty_run, retry_at, commands>>

\* except Exception: a statement of the try block raises, at the cycle's start or
\* inside the for loop
LoopRaise ==
    /\ pc \in {"top", "proc"}
    /\ Failure
    /\ fired' = NoEvent
    /\ UNCHANGED <<config, monitored_uids, live_status_cache, backoff, current_interval,
                   last_rate_limited, time, add_inflight, reply, history>>

\* The sleep of the except branch ends
LoopErrWake ==
    /\ pc = "err_sleep"
    /\ time + wait_time <= horizon
    /\ time' = time + wait_time
    /\ pc' = "top"
    /\ fired' = NoEvent
    /\ UNCHANGED <<config, monitored_uids, live_status_cache, backoff, current_interval,
                   last_rate_limited, consecutive_errors, locals, wait_time, add_inflight,
                   reply, history>>

\* monitor_task.cancel(): CancelledError is raised at the await the loop is parked at
LoopCancel ==
    /\ pc \in {"fetch", "send_live", "send_end", "sleep", "idle_sleep", "err_sleep"}
    /\ pc' = "done"
    /\ fired' = NoEvent
    /\ monitored_copy' = <<>>
    /\ now' = 0
    /\ uids' = <<>>
    /\ status_map' = EmptyDict
    /\ idx' = 0
    /\ UNCHANGED <<config, monitored_uids, live_status_cache, backoff, current_interval,
                   last_rate_limited, consecutive_errors, wait_time, time, add_inflight,
                   reply, history>>

----------------------------------------------------------------------------
(* Command handlers.  They run while the loop is parked at an await. *)

\* add_monitor up to its await of get_live_status: the isdigit and the cap checks
AddBegin(u, sender) ==
    /\ Suspended
    /\ commands < MaxCommands
    /\ commands' = commands + 1
    /\ IF ~isdigit(u) \/ Len(monitored_uids) >= max_monitors
       THEN UNCHANGED add_inflight
       ELSE /\ Cardinality(add_inflight) < MaxInflight
            /\ [uid |-> u, sender |-> sender] \notin add_inflight
            /\ add_inflight' = add_inflight \cup {[uid |-> u, sender |-> sender]}
    /\ fired' = NoEvent
    /\ UNCHANGED <<config, monitored_uids, live_status_cache, backoff, current_interval,
                   last_rate_limited, pc, consecutive_errors, locals, wait_time, time,
                   reply, live_unanswered, armed, seeded, empty_run, retry_at, seen_429>>

\* (mutation) the lookup's result accepted without looking at uname
Resolved_Always(status_info) == TRUE

\* if not status_info.get("uname"): reject
Resolved(status_info) == Get(status_info, "uname", "") # ""

\* add_monitor from the return of get_live_status to its end
AddReturn(call) ==
    /\ Suspended
    /\ call \in add_inflight
    /\ add_inflight' = add_inflight \ {call}
    /\ \E r \in Replies(<<call.uid>>) :
          LET status_info == get_live_status(call.uid, r)
          IN  /\ last_rate_limited' = RateLimitedAfter(last_rate_limited, <<call.uid>>, r)
              /\ seen_429' = (seen_429 \/ r = Http(429))
              /\ IF ~Resolved(status_info)
                 THEN UNCHANGED <<monitored_uids, live_status_cache, seeded,
                                 live_unanswered>>
                 ELSE /\ monitored_uids' =
                            OdPut(monitored_uids, call.uid,
                                  NewInfo(status_info, call.sender, time))
                      /\ live_status_cache' =
                            Put(live_status_cache, call.uid, status_info.live_status)
                      /\ seeded' = [seeded EXCEPT ![call.uid] = status_info.live_status = 1]
                      /\ live_unanswered' = [live_unanswered EXCEPT ![call.uid] =
                                                @ /\ status_info.live_status = 1]
    /\ fired' = NoEvent
    /\ UNCHANGED <<config, backoff, current_interval, pc, consecutive_errors, locals,
                   wait_time, time, reply, armed, empty_run, retry_at, commands>>

\* remove_monitor
Remove(u) ==
    /\ Suspended
    /\ commands < MaxCommands
    /\ commands' = commands + 1
    /\ IF isdigit(u) /\ HasKey(monitored_uids, u)
       THEN /\ monitored_uids' = OdDel(monitored_uids, u)
            /\ live_status_cache' = Pop(live_status_cache, u)
            /\ seeded' = [seeded EXCEPT ![u] = FALSE]
       ELSE UNCHANGED <<monitored_uids, live_status_cache, seeded>>
    /\ fired' = NoEvent
    /\ UNCHANGED <<config, backoff, current_interval, last_rate_limited, pc,
                   consecutive_errors, locals, wait_time, time, add_inflight, reply,
                   live_unanswered, armed, empty_run, retry_at, seen_429>>

----------------------------------------------------------------------------
Next ==
    \/ LoopStart
    \/ LoopIdleWake
    \/ LoopFetchReturn
    \/ LoopProcess
    \/ LoopSendReturn
    \/ LoopWake
    \/ LoopRaise
    \/ LoopErrWake
    \/ LoopCancel
    \/ \E u \in UidArgs, sender \in Senders : AddBegin(u, sender)
    \/ \E call \in add_inflight : AddReturn(call)
    \/ \E u \in UidArgs : Remove(u)

Spec == Init /\ [][Next]_vars

\* The loop alone, from a loaded registry, over the longer horizon
InitLoop == InitWith({OneTracked, TwoTracked}, {2}, MaxLoopTime, "top", {<<>>})

NextLoop ==
    \/ LoopStart
    \/ LoopFetchReturn
    \/ LoopProcess
    \/ LoopSendReturn
    \/ LoopWake
    \/ LoopRaise
    \/ LoopErrWake
    \/ LoopCancel

SpecLoop == InitLoop /\ [][NextLoop]_vars

----------------------------------------------------------------------------
(* The fetcher on its own: one call of get_live_status_batch with any uid list *)
(* and any upstream reply                                                       *)

UidLists == UNION {[1..n -> UidArgs] : n \in 0..MaxUids}

InitBatch == InitWith({NoFile}, {2}, 0, "batch_call", UidLists)

BatchReturn ==
    /\ pc = "batch_call"
    /\ \E r \in AllReplies :
          LET res == get_live_status_batch(uids, r)
          IN  /\ reply' = r
              /\ status_map' = res.map
              /\ last_rate_limited' = RateLimitedAfter(last_rate_limited, uids, r)
              /\ pc' = IF res.raised THEN "batch_raised" ELSE "batch_return"
    /\ UNCHANGED <<config, monitored_uids, live_status_cache, backoff, current_interval,
                   consecutive_errors, monitored_copy, now, uids, idx, wait_time, time,
                   add_inflight, fired, history>>

NextBatch == BatchReturn

SpecBatch == InitBatch /\ [][NextBatch]_vars

----------------------------------------------------------------------------
(* The loop with the four notification toggles *)

\* enable_notify_cmd / disable_notify_cmd: self.enable_notifications = True / False
SetNotify(b) ==
    /\ Suspended
    /\ enable_notifications' = b
    /\ fired' = NoEvent
    /\ UNCHANGED <<check_interval, max_monitors, enable_end_notifications, horizon,
                   monitored_uids, live_status_cache, backoff, current_interval,
                   last_rate_limited, pc, consecutive_errors, locals, wait_time, time,
                   add_inflight, reply, history>>

\* enable_end_notify_cmd / disable_end_notify_cmd: self.enable_end_notifications = ...
SetEndNotify(b) ==
    /\ Suspended
    /\ enable_end_notifications' = b
    /\ fired' = NoEvent
    /\ UNCHANGED <<check_interval, max_monitors, enable_notifications, horizon,
                   monitored_uids, live_status_cache, backoff, current_interval,
                   last_rate_limited, pc, consecutive_errors, locals, wait_time, time,
                   add_inflight, reply, history>>

InitNotify == InitWith({OneTracked, LegacyTracked}, {2}, MaxTime, "top", {<<>>})

NextNotify ==
    \/ LoopStart
    \/ LoopFetchReturn
    \/ LoopProcess
    \/ LoopSendReturn
    \/ LoopWake
    \/ LoopRaise
    \/ LoopErrWake
    \/ LoopCancel
    \/ \E b \in BOOLEAN : SetNotify(b)
    \/ \E b \in BOOLEAN : SetEndNotify(b)

SpecNotify == InitNotify /\ [][NextNotify]_vars

----------------------------------------------------------------------------
(* Claims *)

\* The upstream payload holds an item for uid u
Supplied(r, u) ==
    /\ r.kind = "http"
    /\ r.status = 200
    /\ \/ r.shape = "dict" /\ u \in DOMAIN r.items
       \/ r.shape = "list" /\ \E i \in 1..Len(r.items) : EntryUid(r.items[i]) = u

\* C1: whatever the uid list and the outcome of the request, the mapping returned by
\* get_live_status_batch has exactly the requested uids as keys, every uid the
\* payload did not supply maps to the zero-value status, and no exception leaves.
C1_BatchKeysExact ==
    /\ pc # "batch_raised"
    /\ pc = "batch_return" =>
          /\ DOMAIN status_map = Range(uids)
          /\ \A u \in Range(uids) : ~Supplied(reply, u) => status_map[u] = ZeroStatus

\* A keyed 200 reply that supplies one requested uid and not the other
C1_Witness ==
    /\ pc = "batch_return"
    /\ uids = <<"1", "2">>
    /\ reply.kind = "http" /\ reply.status = 200 /\ reply.code = 0 /\ reply.shape = "dict"
    /\ status_map["1"] = AliceLive
    /\ ~Supplied(reply, "2")
    /\ status_map["2"] = ZeroStatus

\* C2: the loop never calls send_live_notification twice in a row for a uid without
\* an observation of that uid as not-LIVE in between, whatever add and remove do at
\* the loop's awaits.
C2_NoRepeatedWentLive ==
    [][\A u \in DigitUids : fired' = Event("WENT_LIVE", u) => ~live_unanswered[u]]_vars

\* C3: the loop calls send_end_notification for a uid only if WENT_LIVE fired for it
\* with no WENT_OFFLINE since, or its cache entry was written LIVE outside the loop
\* (loaded from the file, or written by add_monitor).
C3_OfflineOnlyAfterLive ==
    [][\A u \in DigitUids : fired' = Event("WENT_OFFLINE", u) => armed[u] \/ seeded[u]]_vars

\* WENT_OFFLINE has just fired for a uid whose LIVE state the loop itself announced
C3_Witness ==
    \E u \in DigitUids :
        /\ fired = Event("WENT_OFFLINE", u)
        /\ pc = "send_end"
        /\ ~seeded[u]

\* C4 as stated: base <= current_interval <= 300 for every configured base interval.
C4_IntervalBoundsAnyBase ==
    check_interval <= current_interval /\ current_interval <= 300

\* C4, amended: for a configured base interval of at most 300,
\* base <= current_interval <= 300 in every reachable state.
C4_IntervalBounds ==
    check_interval <= 300 =>
        check_interval <= current_interval /\ current_interval <= 300

\* The interval was doubled into the ceiling
C4_Witness ==
    /\ check_interval = 200
    /\ current_interval = 300
    /\ pc = "top"

\* C5: once no fetch receives HTTP 429 any more, every completed cycle with the
\* interval above base decreases it.
C5_DecayOnceUnlimited ==
    [][(pc = "sleep" /\ pc' = "top" /\ ~seen_429 /\ current_interval > check_interval)
          => current_interval' < current_interval]_vars

\* C6: the k-th fetched empty result in a row of a uid sets its error count to k and
\* its skip deadline to now + min(300, 30 * k), a later deadline than before; the
\* first non-empty result removes the count and the deadline.
C6_BackoffFollowsEmptyRun ==
    [][\A u \in DigitUids :
          /\ empty_run'[u] = empty_run[u] + 1 =>
                /\ u \in DOMAIN uid_error_counts' /\ uid_error_counts'[u] = empty_run'[u]
                /\ u \in DOMAIN uid_skip_until'
                /\ uid_skip_until'[u] = now + Min(300, 30 * empty_run'[u])
                /\ uid_skip_until'[u] > Get(uid_skip_until, u, 0)
          /\ (empty_run[u] > 0 /\ empty_run'[u] = 0) =>
                u \notin DOMAIN uid_error_counts' /\ u \notin DOMAIN uid_skip_until'
      ]_vars

\* C7, in the form a finite run decides: a tracked uid is in the batch fetch of every
\* cycle that starts at or after the deadline its last fetched result set, so the
\* backoff only spaces its retries out and never excludes it for good.
C7_RetriedWhenDue ==
    pc = "fetch" =>
        \A i \in 1..Len(monitored_copy) :
            now >= retry_at[monitored_copy[i].uid] => monitored_copy[i].uid \in Range(uids)

\* C8: add_monitor for a uid that is already in the registry leaves the registry as
\* it is (size, added_time, added_by, unified_msg_origin).
C8_ReAddLeavesRegistry ==
    [][\A call \in add_inflight :
          (call \notin add_inflight' /\ HasKey(monitored_uids, call.uid))
             => monitored_uids' = monitored_uids]_vars

\* C9: the registry never holds more than max_monitors entries.
C9_RegistryWithinCap == Len(monitored_uids) <= max_monitors

\* C10: a cycle that raises adds one to consecutive_errors and then sleeps
\* current_interval below 5 failures and min(300, 60 * failures) from the fifth on;
\* a cycle that completes its for loop resets the counter to 0.
C10_FailureCounter ==
    [][/\ (pc # "err_sleep" /\ pc' = "err_sleep") =>
             /\ consecutive_errors' = consecutive_errors + 1
             /\ wait_time' = IF consecutive_errors' < 5
                             THEN current_interval
                             ELSE Min(300, 60 * consecutive_errors')
             /\ consecutive_errors' = 5 => wait_time' = 300
       /\ (pc = "err_sleep" /\ pc' = "top") => time' = time + wait_time
       /\ (pc # "sleep" /\ pc' = "sleep") => consecutive_errors' = 0
      ]_vars

\* The fifth failure in a row: the loop sleeps 300
C10_Witness ==
    /\ pc = "err_sleep"
    /\ consecutive_errors = 5
    /\ wait_time = 300
    /\ current_interval = 60

----------------------------------------------------------------------------
\* The awaits of the loop: where a cancellation can reach it
LoopAwaits == {"fetch", "send_live", "send_end", "sleep", "idle_sleep", "err_sleep"}

\* C11: the loop ends only by cancellation: it stops at the await it was parked at,
\* the failure counter as it was and the clock where it was, and it starts no
\* further cycle; no failure ends it.
C11_OnlyCancellationStops ==
    [][ /\ (pc # "done" /\ pc' = "done") =>
              /\ pc \in LoopAwaits
              /\ consecutive_errors' = consecutive_errors
              /\ time' = time
        /\ pc = "done" => pc' = "done" ]_vars

\* Cancelled after at least one counted failure
C11_Witness == pc = "done" /\ consecutive_errors >= 1

\* C12: a cycle whose own fetch received no HTTP 429 is not treated as rate-limited:
\* after its sleep the interval is the decayed one, max(base, int(0.75 * interval)).
C12_SignalLastsOneCycle ==
    [][(pc = "sleep" /\ pc' = "top" /\ ~seen_429) =>
          current_interval' = Max(check_interval, ThreeQuarters(current_interval))]_vars

\* C13: a command handler's step changes neither the status cache, nor the backoff
\* maps, nor current_interval, nor the rate-limited flag.
C13_HandlersLeaveLoopState ==
    [][(commands' # commands \/ add_inflight' # add_inflight) =>
          UNCHANGED <<live_status_cache, uid_error_counts, uid_skip_until,
                      current_interval, last_rate_limited>>]_vars

\* The status the cycle holds for the uid at position idx of its snapshot
SnapshotStatus == Get(Get(status_map, monitored_copy[idx].uid, [live_status |-> 0]),
                      "live_status", 0)

\* C14: a cycle works on the registry as it was at the cycle's start: the snapshot is
\* the registry of that moment, no add or remove changes it while the cycle runs,
\* and the uids the cycle processes (cache update, backoff bookkeeping) are the
\* snapshot's keys, each once, in order, up to the last.
C14_CycleWorksOnSnapshot ==
    [][ /\ (pc = "top" /\ pc' = "fetch") => monitored_copy' = monitored_uids
        /\ (pc \in {"fetch", "proc", "send_live", "send_end"}
              /\ pc' \in {"fetch", "proc", "send_live", "send_end"}) =>
                 monitored_copy' = monitored_copy
        /\ (pc = "fetch" /\ pc' = "proc") => idx' = 1
        /\ (pc \in {"proc", "send_live", "send_end"} /\ pc' \in {"proc", "sleep"}) =>
              LET u == monitored_copy[idx].uid
              IN  /\ u \in DOMAIN live_status_cache'
                  /\ live_status_cache'[u] = SnapshotStatus
                  /\ \/ pc' = "proc" /\ idx < Len(monitored_copy) /\ idx' = idx + 1
                     \/ pc' = "sleep" /\ idx = Len(monitored_copy) ]_vars

\* A cycle at work on a snapshot the registry no longer matches
C14_Witness ==
    /\ pc = "proc"
    /\ Keys(monitored_copy) # Keys(monitored_uids)

\* C15: when the loop is cancelled, an identifier whose transition was fired has its
\* cache entry written too: LIVE after WENT_LIVE, not LIVE after WENT_OFFLINE.
C15_NoHalfApplied ==
    [][(pc # "done" /\ pc' = "done") =>
          \A u \in DigitUids :
             /\ fired = Event("WENT_LIVE", u) => Get(live_status_cache', u, 0) = 1
             /\ fired = Event("WENT_OFFLINE", u) => Get(live_status_cache', u, 0) # 1]_vars

\* The notify target of the snapshot entry being processed
CurTarget == Get(monitored_copy[idx].info, "unified_msg_origin", "")

\* C16: a went-live message reaches context.send_message only while
\* enable_notifications is true and the entry has a unified_msg_origin; a went-offline
\* message only while enable_end_notifications is true as well; whatever the toggle
\* commands did before.
C16_SinkOnlyWhenEnabled ==
    [][ /\ (pc # "send_live" /\ pc' = "send_live") =>
              enable_notifications' /\ CurTarget' # ""
        /\ (pc # "send_end" /\ pc' = "send_end") =>
              enable_notifications' /\ enable_end_notifications' /\ CurTarget' # "" ]_vars

\* A went-live message handed over after the end notifications were switched off
C16_Witness == pc = "send_live" /\ enable_notifications /\ ~enable_end_notifications

\* C17: when context.send_message comes back, delivered or failed, the cycle goes
\* on: the uid's cache entry is the status this cycle observed, its backoff record is
\* updated, no failure is counted, and the next uid of the snapshot (or the sleep
\* after the last one) follows.
C17_SinkFailureSwallowed ==
    [][(pc \in {"send_live", "send_end"} /\ pc' \notin {pc, "done"}) =>
          LET u == monitored_copy[idx].uid
              cur == Get(status_map, u, [live_status |-> 0])
              empty == Get(cur, "uname", "") = "" /\ Get(cur, "room_id", 0) = 0
          IN  /\ u \in DOMAIN live_status_cache'
              /\ live_status_cache'[u] = SnapshotStatus
              /\ IF empty
                 THEN /\ u \in DOMAIN uid_error_counts' /\ u \in DOMAIN uid_skip_until'
                      /\ uid_error_counts'[u] = Get(uid_error_counts, u, 0) + 1
                 ELSE u \notin DOMAIN uid_error_counts' /\ u \notin DOMAIN uid_skip_until'
              /\ consecutive_errors' <= consecutive_errors
              /\ \/ pc' = "proc" /\ idx < Len(monitored_copy) /\ idx' = idx + 1
                 \/ pc' = "sleep" /\ idx = Len(monitored_copy) ]_vars

\* The delivery for the first uid failed and the second uid is being processed
C17_Witness == fired = Event("SEND_FAILED", "1") /\ pc = "proc" /\ idx = 2

\* C18: a rejected command leaves the registry and the cache as they are: a command
\* step changes them only by removing a tracked numeric uid; an add that is
\* non-numeric or issued at the cap is not even started; an add whose lookup comes
\* back changes them only by an entry with a non-blank uname.
C18_RejectedCommandsMutateNothing ==
    [][ /\ commands' # commands =>
              \/ UNCHANGED <<monitored_uids, live_status_cache>>
              \/ \E u \in DigitUids :
                    /\ HasKey(monitored_uids, u)
                    /\ monitored_uids' = OdDel(monitored_uids, u)
                    /\ live_status_cache' = Pop(live_status_cache, u)
        /\ (commands' # commands /\ Len(monitored_uids) >= max_monitors) =>
              add_inflight' = add_inflight
        /\ \A call \in add_inflight' : call.uid \in DigitUids
        /\ \A call \in add_inflight :
              call \notin add_inflight' =>
                 \/ UNCHANGED <<monitored_uids, live_status_cache>>
                 \/ /\ HasKey(monitored_uids', call.uid)
                    /\ InfoOf(monitored_uids', call.uid).uname # "" ]_vars

\* With nothing tracked, the one command sent was an add whose lookup was answered
\* HTTP 429: it came back and nothing is tracked
C18_Witness ==
    /\ commands = 1 /\ add_inflight = {}
    /\ last_rate_limited
    /\ Len(monitored_uids) = 0 /\ live_status_cache = EmptyDict

\* Raw live_status values, 1 being LIVE
RawStates == {0, 1, 2}

\* C19: for the uid a cycle processes, WENT_LIVE fires iff cur = 1 and prev # 1,
\* WENT_OFFLINE iff prev = 1 and cur # 1 (any raw value but 1 is not LIVE), never
\* both; the cache is written only after both checks and then holds cur; so WENT_LIVE
\* never follows WENT_LIVE without a WENT_OFFLINE between.
C19_EdgeDetection ==
    [][ /\ \A c \in RawStates, p \in RawStates :
              /\ WentLive([live_status |-> c], p) <=> (c = 1 /\ p # 1)
              /\ WentOffline([live_status |-> c], p) <=> (p = 1 /\ c # 1)
              /\ ~(WentLive([live_status |-> c], p) /\ WentOffline([live_status |-> c], p))
        /\ (pc = "proc" /\ pc' # "err_sleep") =>
              LET u == monitored_copy[idx].uid
                  prev == Get(live_status_cache, u, 0)
              IN  /\ fired' = Event("WENT_LIVE", u) <=> (SnapshotStatus = 1 /\ prev # 1)
                  /\ fired' = Event("WENT_OFFLINE", u) <=> (prev = 1 /\ SnapshotStatus # 1)
                  /\ fired' \in {NoEvent, Event("WENT_LIVE", u), Event("WENT_OFFLINE", u)}
                  /\ pc' \in {"send_live", "send_end"} =>
                        live_status_cache' = live_status_cache
                  /\ pc' \in {"proc", "sleep"} =>
                        u \in DOMAIN live_status_cache' /\ live_status_cache'[u] = SnapshotStatus
                  /\ fired' = Event("WENT_LIVE", u) => ~armed[u] ]_vars

\* uid "2", loaded as not LIVE, was announced LIVE and now its end is announced
C19_Witness == fired = Event("WENT_OFFLINE", "2") /\ pc = "send_end" /\ ~armed["2"]

\* C20: the interval is adjusted before the cycle's sleep, from the signal of the
\* cycle's own fetch: the sleep after a rate-limited cycle lasts the doubled interval.
C20_AdjustedBeforeSleep ==
    [][(pc # "sleep" /\ pc' = "sleep") =>
          wait_time' = NextInterval(seen_429', check_interval, current_interval)]_vars

\* C21: a uid the cycle left out of its fetch, its skip deadline not yet passed, is
\* left untouched by the cycle: no transition fires for it, and its cache entry, its
\* error count and its skip deadline stay as they are.
C21_SkippedUidUntouched ==
    [][(pc = "proc" /\ pc' # "err_sleep" /\ monitored_copy[idx].uid \notin Range(uids)) =>
          LET u == monitored_copy[idx].uid
          IN  /\ fired' = NoEvent
              /\ (u \in DOMAIN live_status_cache') = (u \in DOMAIN live_status_cache)
              /\ Get(live_status_cache', u, 0) = Get(live_status_cache, u, 0)
              /\ (u \in DOMAIN uid_error_counts') = (u \in DOMAIN uid_error_counts)
              /\ Get(uid_error_counts', u, 0) = Get(uid_error_counts, u, 0)
              /\ (u \in DOMAIN uid_skip_until') = (u \in DOMAIN uid_skip_until)
              /\ Get(uid_skip_until', u, 0) = Get(uid_skip_until, u, 0)]_vars

\* C22: while the loop is between cycles and no add is waiting for its lookup, the
\* status cache holds entries for tracked uids only.
C22_CacheKeysTracked ==
    (pc \in {"top", "sleep", "idle_sleep", "err_sleep"} /\ add_inflight = {}) =>
        DOMAIN live_status_cache \subseteq Range(Keys(monitored_uids))

\* C23: remove_monitor discards the uid's backoff record, and an add that puts a uid
\* into the registry finds it with no error count and no skip deadline.
C23_RemoveDiscardsBackoff ==
    [][\A u \in DigitUids :
          /\ (HasKey(monitored_uids, u) /\ ~HasKey(monitored_uids', u)) =>
                u \notin DOMAIN uid_error_counts' /\ u \notin DOMAIN uid_skip_until'
          /\ (~HasKey(monitored_uids, u) /\ HasKey(monitored_uids', u)) =>
                u \notin DOMAIN uid_error_counts' /\ u \notin DOMAIN uid_skip_until']_vars

====
